---- MODULE Spec2Model ----
(***************************************************************************)
(* Consultation booking and payment reconciliation of migrantifly_backend. *)
(* The state is the Consultation and Payment collections, the checkout     *)
(* sessions held by the payment provider, the requests that are between    *)
(* two database calls, the clock, and the outcome of the last handler.     *)
(* Times are minutes since an arbitrary origin.                            *)
(***************************************************************************)
EXTENDS Integers, FiniteSets, Sequences, TLC

\* ---------------------------------------------------------------- bounds
MaxBook == 2          \* POST /book requests (one consultation id each)
MaxSess == 2          \* checkout sessions the provider creates
MaxTicks == 1         \* clock steps of HOLD_MINUTES each
MaxApps == 1          \* visa applications

\* ------------------------------------------------------ program constants
CONSULTATION_FEE == 50
SLOT_DURATION == 60
HOLD_MINUTES == 30
DEPOSIT_AMOUNT == 500

\* Requested start times: two that overlap without being equal, and one
\* that is more than 24 hours away at time 0 and exactly 24 hours away
\* after one clock step.
BookSlots == {60, 90, 1470}
NearSlots == {60, 90}
MethodInputs == {"online", "fax"}

CIds == 1..MaxBook
PIds == 1..MaxBook
SIds == 1..MaxSess
AIds == 1..MaxApps

NoTime == -1
NoRef == <<>>
CsId(s) == <<"cs", s>>             \* id of checkout session s
PiId(s) == <<"pi", s>>             \* id of the payment intent of session s
ObjectString == <<"[object Object]">>

NoConsultation ==
    [status |-> "none", scheduledDate |-> NoTime, duration |-> 0,
     method |-> "none", notes |-> "none", paymentId |-> 0,
     expiresAt |-> NoTime, rescheduledFrom |-> 0, rescheduleReason |-> "none"]

NoPayment ==
    [status |-> "none", type |-> "none", amount |-> 0, consultationId |-> 0,
     applicationId |-> 0, transactionId |-> NoRef, gatewayReference |-> NoRef, invoiceUrl |-> 0]

NoSession ==
    [type |-> "none", paymentId |-> 0, consultationId |-> 0, applicationId |-> 0,
     unit_amount |-> 0, paid |-> FALSE]

\* An application as the client routes create it, before any deposit;
\* timeline counts its 'deposit_paid' entries.
NewApplication == [stage |-> "consultation", progress |-> 0, timeline |-> 0]

IdleBook == [pc |-> "idle", slot |-> NoTime, method |-> "none", racedWith |-> {}]

NoEffects == [emails |-> 0, notifications |-> 0, invoices |-> 0]
OneEmail == [NoEffects EXCEPT !.emails = 1]
OneNotification == [NoEffects EXCEPT !.notifications = 1]
OneInvoice == [NoEffects EXCEPT !.invoices = 1]

NoVerify == [pc |-> "idle", s |-> 0, saw |-> NoPayment]
NoHook == [pc |-> "idle", s |-> 0, saw |-> "none"]

VARIABLES
    now,          \* the clock
    cons,         \* Consultation collection: id -> document ("none" = no document)
    pays,         \* Payment collection: id -> document
    sessions,     \* the provider's checkout sessions: id -> session
    book,         \* POST /book requests: position between the two database calls
    verify,       \* the verify-checkout-session request between its read and its writes
    hook,         \* the checkout.session.completed handler between its two updates
    apps,         \* Application collection: id -> document
    resp          \* outcome of the last handler: operation, status code, side effects

vars == <<now, cons, pays, sessions, book, verify, hook, apps, resp>>

Response(op, code, fx) == [op |-> op, code |-> code, fx |-> fx, info |-> "none"]

\* ------------------------------------------------------------ Slot ledger
\* A ledger that counts every hold, expired or not.
isSlotAvailableCountingHolds(cs, startTime, endTime) ==
    ~ \E c \in DOMAIN cs :
        /\ cs[c].status \in {"pending_payment", "scheduled", "completed"}
        /\ cs[c].scheduledDate >= startTime
        /\ cs[c].scheduledDate < endTime

isSlotAvailable(cs, startTime, endTime) ==
    ~ \E c \in DOMAIN cs :
        /\ cs[c].status \in {"scheduled", "completed"}
        /\ cs[c].scheduledDate >= startTime
        /\ cs[c].scheduledDate < endTime

methodMap(m) == IF m = "online" THEN "zoom" ELSE IF m = "in_person" THEN "in-person" ELSE m

\* Two requested windows of SLOT_DURATION intersect.
Overlap(s1, s2) == s1 < s2 + SLOT_DURATION /\ s2 < s1 + SLOT_DURATION

\* ------------------------------------------------------------------ clock
Tick ==
    /\ now + HOLD_MINUTES <= MaxTicks * HOLD_MINUTES
    /\ now' = now + HOLD_MINUTES
    /\ UNCHANGED <<cons, pays, sessions, book, verify, hook, apps, resp>>

\* TTL index on expiresAt: the store deletes a document whose expiresAt has passed.
TTLReap(c) ==
    /\ cons[c].status # "none"
    /\ cons[c].expiresAt # NoTime
    /\ cons[c].expiresAt <= now
    /\ cons' = [cons EXCEPT ![c] = NoConsultation]
    /\ resp' = Response("ttl", 0, NoEffects)
    /\ UNCHANGED <<now, pays, sessions, book, verify, hook, apps>>

\* ------------------------------------------------------------ POST /book
\* Validation and the availability check, up to the await of isSlotAvailable.
BookCheck(r, slot, m) ==
    /\ book[r].pc = "idle"
    /\ \A q \in 1..(r - 1) : book[q].pc # "idle"
    /\ IF methodMap(m) \notin {"zoom", "phone", "in-person", "google-meet"} \/ slot < now
       THEN /\ book' = [book EXCEPT ![r].pc = "invalid"]
            /\ resp' = Response("book", 400, NoEffects)
       ELSE IF ~ isSlotAvailable(cons, slot, slot + SLOT_DURATION)
       THEN /\ book' = [book EXCEPT ![r] = [pc |-> "conflict", slot |-> slot,
                                             method |-> "none", racedWith |-> {}]]
            /\ resp' = Response("book", 409, NoEffects)
       ELSE /\ book' = [book EXCEPT ![r] =
                          [pc |-> "checked", slot |-> slot, method |-> methodMap(m),
                           racedWith |-> {q \in CIds : book[q].pc = "checked"}]]
            /\ resp' = Response("bookCheck", 0, NoEffects)
    /\ UNCHANGED <<now, cons, pays, sessions, verify, hook, apps>>

\* The inserts after the check: consultation, payment, link.
BookInsert(r) ==
    /\ book[r].pc = "checked"
    /\ cons' = [cons EXCEPT ![r] =
                 [NoConsultation EXCEPT
                    !.status = "pending_payment",
                    !.scheduledDate = book[r].slot,
                    !.duration = SLOT_DURATION,
                    !.method = book[r].method,
                    !.paymentId = r,
                    !.expiresAt = now + HOLD_MINUTES]]
    /\ pays' = [pays EXCEPT ![r] =
                 [NoPayment EXCEPT
                    !.status = "pending",
                    !.type = "consultation_fee",
                    !.amount = CONSULTATION_FEE]]
    /\ book' = [book EXCEPT ![r].pc = "created"]
    /\ resp' = Response("book", 201, NoEffects)
    /\ UNCHANGED <<now, sessions, verify, hook, apps>>

\* The hold expiry a payment document carries: paymentSchema has no
\* expiresAt path, and the inserts of POST /book pass none.
PaymentExpiresAt(pay) == NoTime

\* The same inserts when a save throws: at "payment" the payment save fails
\* after the consultation was saved, at "link" the save of the consultation's
\* paymentId fails after both were saved.  The handler answers 500.
BookInsertFails(r, step) ==
    /\ book[r].pc = "checked"
    /\ cons' = [cons EXCEPT ![r] =
                 [NoConsultation EXCEPT
                    !.status = "pending_payment",
                    !.scheduledDate = book[r].slot,
                    !.duration = SLOT_DURATION,
                    !.method = book[r].method,
                    !.expiresAt = now + HOLD_MINUTES]]
    /\ pays' = IF step = "link"
               THEN [pays EXCEPT ![r] =
                       [NoPayment EXCEPT !.status = "pending",
                                         !.type = "consultation_fee",
                                         !.amount = CONSULTATION_FEE]]
               ELSE pays
    /\ book' = [book EXCEPT ![r].pc = "failed"]
    /\ resp' = Response("book", 500, NoEffects)
    /\ UNCHANGED <<now, sessions, verify, hook, apps>>

\* The inserts of POST /book in routes/consultation.js, the router that
\* server.js mounts: the consultation is created without expiresAt.
\* fails is "none", "payment" or "link".
BookInsertMounted(r, fails) ==
    /\ book[r].pc = "checked"
    /\ cons' = [cons EXCEPT ![r] =
                 [NoConsultation EXCEPT
                    !.status = "pending_payment",
                    !.scheduledDate = book[r].slot,
                    !.duration = SLOT_DURATION,
                    !.method = book[r].method,
                    !.paymentId = IF fails = "none" THEN r ELSE 0]]
    /\ pays' = IF fails # "payment"
               THEN [pays EXCEPT ![r] =
                       [NoPayment EXCEPT !.status = "pending",
                                         !.type = "consultation_fee",
                                         !.amount = CONSULTATION_FEE]]
               ELSE pays
    /\ book' = [book EXCEPT ![r].pc = IF fails = "none" THEN "created" ELSE "failed"]
    /\ resp' = Response("book", IF fails = "none" THEN 201 ELSE 500, NoEffects)
    /\ UNCHANGED <<now, sessions, verify, hook, apps>>

\* ------------------------------------- POST /create-consultation-payment
\* s is the id the provider gives the new checkout session; amount is the
\* amount of the request body (0 when absent), charged in cents.
FreeSession(s) ==
    /\ sessions[s].type = "none"
    /\ \A q \in 1..(s - 1) : sessions[q].type # "none"

CreateConsultationPayment(c, p, amount, emailOk, s) ==
    /\ IF amount <= 0 \/ amount > 10000
       THEN /\ resp' = Response("createCheckout", 400, NoEffects)
            /\ UNCHANGED <<pays, sessions>>
       ELSE IF cons[c].status = "none"
       THEN /\ resp' = Response("createCheckout", 404, NoEffects)
            /\ UNCHANGED <<pays, sessions>>
       ELSE IF ~ emailOk
       THEN /\ resp' = Response("createCheckout", 403, NoEffects)
            /\ UNCHANGED <<pays, sessions>>
       ELSE IF cons[c].status # "pending_payment"
       THEN /\ resp' = Response("createCheckout", 400, NoEffects)
            /\ UNCHANGED <<pays, sessions>>
       ELSE IF pays[p].status = "none"
       THEN /\ resp' = Response("createCheckout", 404, NoEffects)
            /\ UNCHANGED <<pays, sessions>>
       ELSE IF pays[p].status # "pending"
       THEN /\ resp' = Response("createCheckout", 400, NoEffects)
            /\ UNCHANGED <<pays, sessions>>
       ELSE /\ FreeSession(s)
            /\ sessions' = [sessions EXCEPT ![s] =
                   [type |-> "consultation_fee", paymentId |-> p,
                    consultationId |-> c, applicationId |-> 0,
                    unit_amount |-> amount * 100, paid |-> FALSE]]
            /\ pays' = [pays EXCEPT
                   ![p].consultationId = IF @ = 0 THEN c ELSE @,
                   ![p].transactionId = CsId(s)]
            /\ resp' = Response("createCheckout", 200, NoEffects)
    /\ UNCHANGED <<now, cons, book, verify, hook, apps>>

\* The customer pays on the provider's hosted page.
CustomerPays(s) ==
    /\ sessions[s].type # "none"
    /\ ~ sessions[s].paid
    /\ sessions' = [sessions EXCEPT ![s].paid = TRUE]
    /\ UNCHANGED <<now, cons, pays, book, verify, hook, resp, apps>>

\* ------------------------------------------ POST /create-deposit-checkout
\* p and s are the ids the store and the provider give the new payment and
\* the new checkout session.
CreateDepositCheckout(a, amount, isOwner, p, s) ==
    /\ IF ~ isOwner
       THEN /\ resp' = Response("createDeposit", 404, NoEffects)
            /\ UNCHANGED <<pays, sessions>>
       ELSE IF amount # DEPOSIT_AMOUNT
       THEN /\ resp' = Response("createDeposit", 400, NoEffects)
            /\ UNCHANGED <<pays, sessions>>
       ELSE /\ pays[p].status = "none"
            /\ FreeSession(s)
            /\ pays' = [pays EXCEPT ![p] =
                   [NoPayment EXCEPT !.status = "pending", !.type = "deposit",
                                     !.amount = amount, !.applicationId = a,
                                     !.transactionId = CsId(s)]]
            /\ sessions' = [sessions EXCEPT ![s] =
                   [type |-> "deposit", paymentId |-> p, consultationId |-> 0,
                    applicationId |-> a, unit_amount |-> amount * 100,
                    paid |-> FALSE]]
            /\ resp' = Response("createDeposit", 200, NoEffects)
    /\ UNCHANGED <<now, cons, book, verify, hook, apps>>

\* application.save() after the assignments made when the stage read was
\* 'consultation': stage, progress and one pushed timeline entry.
ApplicationDepositPaid(app, sawStage) ==
    IF sawStage = "consultation"
    THEN [app EXCEPT !.stage = "deposit_paid", !.progress = 20, !.timeline = @ + 1]
    ELSE app

\* ------------------------------- webhook: checkout.session.completed
\* Payment.findByIdAndUpdate(paymentId, {status, transactionId, gatewayReference})
WebhookPaymentUpdate(pay, s) ==
    [pay EXCEPT !.status = "completed",
                !.transactionId = CsId(s),
                !.gatewayReference = PiId(s)]

\* Consultation.findByIdAndUpdate(consultationId, {status: 'scheduled'})
WebhookConsultationUpdate(con) == [con EXCEPT !.status = "scheduled"]

\* The confirmation email of lines 755-772, sent when the consultation was found.
WebhookEffects(con, emailFails) ==
    IF con.status = "none" \/ emailFails THEN NoEffects ELSE OneEmail

handleCheckoutSessionCompleted_payment(s) ==
    /\ hook.pc = "idle"
    /\ sessions[s].type = "consultation_fee"
    /\ sessions[s].paid
    /\ LET p == sessions[s].paymentId IN
       IF pays[p].status = "none"
       THEN /\ resp' = Response("webhook", 200, NoEffects)
            /\ hook' = [pc |-> "idle", s |-> s, saw |-> "none"]
            /\ UNCHANGED pays
       ELSE /\ pays' = [pays EXCEPT ![p] = WebhookPaymentUpdate(@, s)]
            /\ hook' = [pc |-> "paid", s |-> s, saw |-> "none"]
            /\ resp' = Response("webhookPayment", 0, NoEffects)
    /\ UNCHANGED <<now, cons, sessions, book, verify, apps>>

handleCheckoutSessionCompleted_consultation(emailFails) ==
    /\ hook.pc = "paid"
    /\ LET c == sessions[hook.s].consultationId IN
       IF cons[c].status = "none"
       THEN /\ resp' = Response("webhook", 200, NoEffects)
            /\ UNCHANGED cons
       ELSE /\ cons' = [cons EXCEPT ![c] = WebhookConsultationUpdate(@)]
            /\ resp' = Response("webhook", 200, WebhookEffects(cons[c], emailFails))
    /\ hook' = [pc |-> "idle", s |-> hook.s, saw |-> "none"]
    /\ UNCHANGED <<now, pays, sessions, book, verify, apps>>

\* The deposit branch: payment update, application read, then the
\* application save, the invoice, payment.save() and the email.
handleCheckoutSessionCompleted_deposit(s) ==
    /\ hook.pc = "idle"
    /\ sessions[s].type = "deposit"
    /\ sessions[s].paid
    /\ LET p == sessions[s].paymentId IN
       IF pays[p].status = "none"
       THEN /\ resp' = Response("webhook", 200, NoEffects)
            /\ hook' = [pc |-> "idle", s |-> s, saw |-> "none"]
            /\ UNCHANGED pays
       ELSE /\ pays' = [pays EXCEPT ![p] = WebhookPaymentUpdate(@, s)]
            /\ hook' = [pc |-> "depositPaid", s |-> s, saw |-> "none"]
            /\ resp' = Response("webhookPayment", 0, NoEffects)
    /\ UNCHANGED <<now, cons, sessions, book, verify, apps>>

handleCheckoutSessionCompleted_application ==
    /\ hook.pc = "depositPaid"
    /\ hook' = [hook EXCEPT !.pc = "depositRead",
                            !.saw = apps[sessions[hook.s].applicationId].stage]
    /\ resp' = Response("webhookRead", 0, NoEffects)
    /\ UNCHANGED <<now, cons, pays, sessions, book, verify, apps>>

handleCheckoutSessionCompleted_invoice(invoiceFails, emailFails) ==
    /\ hook.pc = "depositRead"
    /\ LET a == sessions[hook.s].applicationId
           p == sessions[hook.s].paymentId
       IN /\ apps' = [apps EXCEPT ![a] = ApplicationDepositPaid(@, hook.saw)]
          /\ IF invoiceFails
             THEN /\ resp' = Response("webhook", 200, NoEffects)
                  /\ UNCHANGED pays
             ELSE /\ pays' = [pays EXCEPT ![p].invoiceUrl = 1]
                  /\ resp' = Response("webhook", 200,
                                [emails |-> IF emailFails THEN 0 ELSE 1,
                                 notifications |-> 0, invoices |-> 1])
    /\ hook' = [pc |-> "idle", s |-> hook.s, saw |-> "none"]
    /\ UNCHANGED <<now, cons, sessions, book, verify>>

\* ------------------------------------ POST /verify-checkout-session
\* payment.save() after the assignments of lines 226-231: Mongoose writes the
\* paths whose value differs from the value read.
VerifyPaymentSave(cur, saw, s, metaC) ==
    IF saw.status \in {"none", "completed"} THEN cur
    ELSE [cur EXCEPT
            !.status = "completed",
            !.transactionId = IF saw.transactionId # CsId(s) THEN CsId(s) ELSE @,
            !.gatewayReference = IF saw.gatewayReference # ObjectString
                                 THEN ObjectString ELSE @,
            !.consultationId = IF saw.consultationId = 0 /\ metaC # 0 THEN metaC ELSE @]

\* Consultation.findOneAndUpdate({_id, status: {$ne: 'scheduled'}},
\*                               {$set: {status: 'scheduled'}, $unset: {expiresAt}})
VerifyConsultationUpdate(con) ==
    IF con.status \notin {"none", "scheduled"}
    THEN [con EXCEPT !.status = "scheduled", !.expiresAt = NoTime]
    ELSE con

VerifyRead(s) ==
    /\ verify.pc = "idle"
    /\ IF s = 0 \/ sessions[s].type = "none"
       THEN /\ resp' = Response("verify", 500, NoEffects)
            /\ UNCHANGED verify
       ELSE IF ~ sessions[s].paid
       THEN /\ resp' = Response("verify", 200, NoEffects)
            /\ UNCHANGED verify
       ELSE /\ verify' = [pc |-> "read", s |-> s, saw |-> pays[sessions[s].paymentId]]
            /\ resp' = Response("verifyRead", 0, NoEffects)
    /\ UNCHANGED <<now, cons, pays, sessions, book, hook, apps>>

\* The invoice block of lines 252-269: it runs for a deposit session when the
\* payment read at line 224 carries no invoiceUrl, and its failure is caught.
VerifyInvoices(s, saw, invoiceFails) ==
    /\ sessions[s].type = "deposit"
    /\ sessions[s].applicationId # 0
    /\ saw.status # "none"
    /\ saw.invoiceUrl = 0
    /\ ~ invoiceFails

VerifyFinalize(invoiceFails) ==
    /\ verify.pc = "read"
    /\ LET s == verify.s
           p == sessions[s].paymentId
           c == sessions[s].consultationId
           a == sessions[s].applicationId
           saved == VerifyPaymentSave(pays[p], verify.saw, s, c)
       IN /\ pays' = [pays EXCEPT ![p] =
                        IF VerifyInvoices(s, verify.saw, invoiceFails)
                        THEN [saved EXCEPT !.invoiceUrl = 1] ELSE saved]
          /\ apps' = IF sessions[s].type = "deposit" /\ a # 0
                     THEN [apps EXCEPT ![a] = ApplicationDepositPaid(@, @.stage)]
                     ELSE apps
          /\ cons' = IF c # 0 THEN [cons EXCEPT ![c] = VerifyConsultationUpdate(@)] ELSE cons
          /\ resp' = Response("verify", 200,
                        IF VerifyInvoices(s, verify.saw, invoiceFails)
                        THEN OneInvoice ELSE NoEffects)
    /\ verify' = [pc |-> "idle", s |-> verify.s, saw |-> NoPayment]
    /\ UNCHANGED <<now, sessions, book, hook>>

\* ----------------------------- webhook: payment_intent.succeeded / failed
handlePaymentSuccess(k) ==
    /\ sessions[k].paid
    /\ LET found == {p \in PIds : /\ pays[p].status # "none"
                                  /\ \/ pays[p].transactionId = PiId(k)
                                     \/ pays[p].gatewayReference = PiId(k)}
       IN IF found = {}
          THEN /\ resp' = Response("intentSucceeded", 200, NoEffects)
               /\ UNCHANGED pays
          ELSE \E p \in found :
               IF pays[p].status # "completed"
               THEN /\ pays' = [pays EXCEPT ![p].status = "completed",
                                            ![p].gatewayReference = PiId(k)]
                    /\ resp' = Response("intentSucceeded", 200, OneNotification)
               ELSE /\ resp' = Response("intentSucceeded", 200, NoEffects)
                    /\ UNCHANGED pays
    /\ UNCHANGED <<now, cons, sessions, book, verify, hook, apps>>

handlePaymentFailure(k) ==
    /\ sessions[k].type # "none"
    /\ LET found == {p \in PIds : /\ pays[p].status # "none"
                                  /\ pays[p].transactionId = PiId(k)}
       IN IF found = {}
          THEN /\ resp' = Response("intentFailed", 200, NoEffects)
               /\ UNCHANGED pays
          ELSE \E p \in found :
               /\ pays' = [pays EXCEPT ![p].status = "failed"]
               /\ resp' = Response("intentFailed", 200, OneNotification)
    /\ UNCHANGED <<now, cons, sessions, book, verify, hook, apps>>

\* ------------------------------------------------------- POST /webhook
WebhookEvents ==
    {"checkout.session.completed", "payment_intent.succeeded",
     "payment_intent.payment_failed", "customer.created"}

\* A verification that lets every request through.
constructEventUnverified(sigOk) == TRUE

\* stripe.webhooks.constructEvent returns the event when the signature
\* verifies and throws otherwise.
constructEvent(sigOk) == sigOk

\* A request that claims event evt about session s; sigOk tells whether its
\* signature verifies.  Only the provider signs, and it signs what happened.
Webhook(sigOk, evt, s) ==
    IF ~ constructEvent(sigOk)
    THEN /\ resp' = Response("webhook", 400, NoEffects)
         /\ UNCHANGED <<now, cons, pays, sessions, book, verify, hook, apps>>
    ELSE CASE evt = "checkout.session.completed" ->
                  IF sessions[s].type = "deposit"
                  THEN handleCheckoutSessionCompleted_deposit(s)
                  ELSE handleCheckoutSessionCompleted_payment(s)
           [] evt = "payment_intent.succeeded" -> handlePaymentSuccess(s)
           [] evt = "payment_intent.payment_failed" -> handlePaymentFailure(s)
           [] OTHER -> /\ hook.pc = "idle"
                       /\ resp' = Response("webhook", 200, NoEffects)
                       /\ UNCHANGED <<now, cons, pays, sessions, book, verify, hook, apps>>

\* ------------------------------------------------ POST /confirm-payment
\* k names the payment intent the caller passes: the intent of session k,
\* or 0 for an id the provider does not know.
\* The handler run on payments ps and applications as: the status code it
\* answers, the collections it leaves and the side effects it causes.
ConfirmPaymentResult(ps, as, p, k, isOwner, invoiceFails, emailFails) ==
    IF ps[p].status = "none" \/ ~ isOwner
    THEN [code |-> 404, pays |-> ps, apps |-> as, fx |-> NoEffects]
    ELSE IF k = 0 \/ sessions[k].type = "none"
    THEN [code |-> 500, pays |-> ps, apps |-> as, fx |-> NoEffects]
    ELSE IF ~ sessions[k].paid
    THEN [code |-> 400, pays |-> [ps EXCEPT ![p].status = "failed"], apps |-> as,
          fx |-> NoEffects]
    ELSE IF invoiceFails
    THEN [code |-> 500,
          pays |-> [ps EXCEPT ![p].status = "completed", ![p].gatewayReference = PiId(k)],
          apps |-> as, fx |-> NoEffects]
    ELSE [code |-> IF emailFails THEN 500 ELSE 200,
          pays |-> [ps EXCEPT ![p].status = "completed", ![p].gatewayReference = PiId(k),
                              ![p].invoiceUrl = 1],
          apps |-> IF ps[p].type = "deposit" /\ ps[p].applicationId # 0
                   THEN [as EXCEPT ![ps[p].applicationId] =
                            ApplicationDepositPaid(@, @.stage)]
                   ELSE as,
          fx |-> [emails |-> IF emailFails THEN 0 ELSE 1,
                  notifications |-> 0, invoices |-> 1]]

\* k names the payment intent the caller passes: the intent of session k,
\* or 0 for an id the provider does not know.
ConfirmPayment(p, k, isOwner, invoiceFails, emailFails) ==
    /\ LET r == ConfirmPaymentResult(pays, apps, p, k, isOwner, invoiceFails, emailFails)
       IN /\ pays' = r.pays
          /\ apps' = r.apps
          /\ resp' = Response("confirmPayment", r.code, r.fx)
    /\ UNCHANGED <<now, cons, sessions, book, verify, hook>>

\* --------------------------------------------- PATCH /:id/confirm-booking
\* The public handler (ownership by email).
ConfirmBooking(c, emailOk, emailFails) ==
    /\ IF cons[c].status = "none"
       THEN /\ resp' = Response("confirmBooking", 404, NoEffects)
            /\ UNCHANGED cons
       ELSE IF ~ emailOk
       THEN /\ resp' = Response("confirmBooking", 403, NoEffects)
            /\ UNCHANGED cons
       ELSE IF cons[c].status \in {"pending_payment", "cancelled"}
       THEN /\ resp' = Response("confirmBooking", 400, NoEffects)
            /\ UNCHANGED cons
       ELSE /\ cons' = [cons EXCEPT ![c].status = "scheduled"]
            /\ resp' = Response("confirmBooking", 200,
                                IF emailFails THEN NoEffects ELSE OneEmail)
    /\ UNCHANGED <<now, pays, sessions, book, verify, hook, apps>>

\* The authenticated handler of routes/consultation.js.
ConfirmBookingAuth(c, isOwner, emailFails) ==
    /\ IF cons[c].status = "none"
       THEN /\ resp' = Response("confirmBookingAuth", 404, NoEffects)
            /\ UNCHANGED cons
       ELSE IF ~ isOwner
       THEN /\ resp' = Response("confirmBookingAuth", 403, NoEffects)
            /\ UNCHANGED cons
       ELSE IF cons[c].status # "pending_payment"
       THEN /\ resp' = Response("confirmBookingAuth", 400, NoEffects)
            /\ UNCHANGED cons
       ELSE /\ cons' = [cons EXCEPT ![c].status = "scheduled"]
            /\ resp' = Response("confirmBookingAuth", 200,
                                IF emailFails THEN NoEffects ELSE OneEmail)
    /\ UNCHANGED <<now, pays, sessions, book, verify, hook, apps>>

\* ------------------------------------------------------ PATCH /:id/cancel
\* hoursUntilConsultation > 24, in minutes
canRefundAtBoundary(scheduledDate, t) == (scheduledDate - t) >= 24 * 60

canRefund(scheduledDate, t) == (scheduledDate - t) > 24 * 60

Cancel(c, authorized) ==
    /\ IF cons[c].status = "none"
       THEN /\ resp' = Response("cancel", 404, NoEffects)
            /\ UNCHANGED <<cons, pays>>
       ELSE IF ~ authorized
       THEN /\ resp' = Response("cancel", 403, NoEffects)
            /\ UNCHANGED <<cons, pays>>
       ELSE IF cons[c].status \notin {"scheduled", "pending_payment"}
       THEN /\ resp' = Response("cancel", 400, NoEffects)
            /\ UNCHANGED <<cons, pays>>
       ELSE LET refund == canRefund(cons[c].scheduledDate, now)
                p == cons[c].paymentId
            IN /\ cons' = [cons EXCEPT ![c].status = "cancelled"]
               /\ pays' = IF p # 0 /\ refund /\ pays[p].status = "completed"
                          THEN [pays EXCEPT ![p].status = "refunded"]
                          ELSE pays
               /\ resp' = [Response("cancel", 200, NoEffects) EXCEPT
                             !.info = IF refund THEN "refund_processed"
                                      ELSE "no_refund_within_24_hours"]
    /\ UNCHANGED <<now, sessions, book, verify, hook, apps>>

\* ---------------------------------------------------- PATCH /:id/complete
\* sendEmail of the account-setup mail is awaited outside any try block and
\* before consultation.save().
Complete(c, notes, proceedWithApplication, emailFails) ==
    /\ IF cons[c].status = "none"
       THEN /\ resp' = Response("complete", 404, NoEffects)
            /\ UNCHANGED cons
       ELSE IF proceedWithApplication /\ emailFails
       THEN /\ resp' = Response("complete", 500, NoEffects)
            /\ UNCHANGED cons
       ELSE /\ cons' = [cons EXCEPT ![c].status = "completed", ![c].notes = notes]
            /\ resp' = Response("complete", 200,
                                IF proceedWithApplication THEN OneEmail ELSE NoEffects)
    /\ UNCHANGED <<now, pays, sessions, book, verify, hook, apps>>

\* -------------------------------------------------------- PATCH /:id/edit
\* Request bodies: a new date/time with or without a new duration, and a body
\* that changes method and notes only.  Absent fields are NoTime, 0, "none".
EditBodies ==
    {[slot |-> t, duration |-> d, method |-> "none", notes |-> "none", reason |-> "none"] :
        t \in BookSlots, d \in {0, 120}}
    \cup {[slot |-> NoTime, duration |-> 0, method |-> "phone", notes |-> "edited",
           reason |-> "none"],
          [slot |-> 90, duration |-> 0, method |-> "none", notes |-> "none",
           reason |-> "client asked"]}

\* The handler run on the collection cs at time t: the status code it answers
\* and the collection it leaves.
EditResult(cs, c, b, t) ==
    IF cs[c].status = "none"
    THEN [code |-> 404, cons |-> cs]
    ELSE IF cs[c].status \in {"completed", "cancelled"}
    THEN [code |-> 400, cons |-> cs]
    ELSE IF b.slot # NoTime /\ b.slot < t
    THEN [code |-> 400, cons |-> cs]
    ELSE IF /\ b.slot # NoTime
            /\ ~ isSlotAvailable(cs, b.slot,
                     b.slot + (IF b.duration # 0 THEN b.duration ELSE cs[c].duration))
    THEN [code |-> 409, cons |-> cs]
    ELSE [code |-> 200,
          cons |-> [cs EXCEPT ![c] =
                  [@ EXCEPT
                     !.rescheduledFrom = IF b.slot # NoTime THEN c ELSE @,
                     !.rescheduleReason =
                         IF b.slot = NoTime THEN @
                         ELSE IF b.reason # "none" THEN b.reason ELSE "Schedule updated",
                     !.scheduledDate = IF b.slot # NoTime THEN b.slot ELSE @,
                     !.duration = IF b.duration # 0 THEN b.duration ELSE @,
                     !.method = IF b.method # "none" THEN b.method ELSE @,
                     !.notes = IF b.notes # "none" THEN b.notes ELSE @,
                     !.status = IF b.slot # NoTime THEN "rescheduled" ELSE @]]]

Edit(c, b) ==
    /\ cons' = EditResult(cons, c, b, now).cons
    /\ resp' = Response("edit", EditResult(cons, c, b, now).code, NoEffects)
    /\ UNCHANGED <<now, pays, sessions, book, verify, hook, apps>>

\* ------------------------------------------------------------------ model
Init ==
    /\ now = 0
    /\ cons = [c \in CIds |-> NoConsultation]
    /\ pays = [p \in PIds |-> NoPayment]
    /\ sessions = [s \in SIds |-> NoSession]
    /\ book = [r \in CIds |-> IdleBook]
    /\ verify = NoVerify
    /\ hook = NoHook
    /\ apps = [a \in AIds |-> NewApplication]
    /\ resp = Response("init", 0, NoEffects)

\* Steps of the clock and of the store's TTL monitor.
Background ==
    \/ Tick
    \/ \E c \in CIds : TTLReap(c)

\* POST /book requests r of R, for the start times of slots.
Booking(R, slots) ==
    \/ \E r \in R, slot \in slots, m \in MethodInputs : BookCheck(r, slot, m)
    \/ \E r \in R : BookInsert(r)

\* The payment provider and the payment routes, for consultations C and
\* payments P, with ownership inputs A, side-effect failures F and the
\* checkout sessions S.  The client asks for the fee the booking answered.
Payments(C, P, A, F, S) ==
    \/ \E c \in C, p \in P, emailOk \in A, s \in S :
          CreateConsultationPayment(c, p, CONSULTATION_FEE, emailOk, s)
    \/ \E s \in SIds : CustomerPays(s)
    \/ \E sigOk \in BOOLEAN, evt \in WebhookEvents, s \in SIds : Webhook(sigOk, evt, s)
    \/ \E emailFails \in F : handleCheckoutSessionCompleted_consultation(emailFails)
    \/ \E s \in SIds \cup {0} : VerifyRead(s)
    \/ \E invoiceFails \in F : VerifyFinalize(invoiceFails)
    \/ \E p \in P, k \in SIds \cup {0}, isOwner \in A, invoiceFails, emailFails \in F :
          ConfirmPayment(p, k, isOwner, invoiceFails, emailFails)

\* The consultation routes other than /book, with edit bodies B.
Lifecycle(C, A, F, B) ==
    \/ \E c \in C, emailOk \in A, emailFails \in F : ConfirmBooking(c, emailOk, emailFails)
    \/ \E c \in C, isOwner \in A, emailFails \in F : ConfirmBookingAuth(c, isOwner, emailFails)
    \/ \E c \in C, authorized \in A : Cancel(c, authorized)
    \/ \E c \in C, proceed \in BOOLEAN, emailFails \in F : Complete(c, "advice", proceed, emailFails)
    \/ \E c \in C, b \in B : Edit(c, b)

\* One booking and every way to pay for it, confirm it and end it.
Next ==
    \/ Background
    \/ Booking({1}, BookSlots)
    \/ Payments({1}, {1}, {TRUE}, {FALSE}, {1})
    \/ Lifecycle({1}, {TRUE}, {FALSE},
                 {b \in EditBodies : b.duration = 0 /\ b.slot = 90 /\ b.reason = "none"})

Spec == Init /\ [][Next]_vars

\* One booking whose checkout is opened more than once.
NextRetry ==
    \/ Background
    \/ Booking({1}, {60})
    \/ Payments({1}, {1}, {TRUE}, {FALSE}, SIds)

SpecRetry == Init /\ [][NextRetry]_vars

\* Two bookings competing for the calendar, paid through the checkout webhook.
NextSlots ==
    \/ Background
    \/ Booking(CIds, NearSlots)
    \/ \E c \in CIds : CreateConsultationPayment(c, c, CONSULTATION_FEE, TRUE, 1)
    \/ \E s \in SIds : CustomerPays(s)
    \/ \E s \in SIds : Webhook(TRUE, "checkout.session.completed", s)
    \/ handleCheckoutSessionCompleted_consultation(FALSE)
    \/ \E c \in CIds : Cancel(c, TRUE)
    \/ \E c \in CIds, b \in {e \in EditBodies : e.slot \in NearSlots /\ e.reason = "none"} :
          Edit(c, b)

SpecSlots == Init /\ [][NextSlots]_vars

\* One deposit for an application, paid and reconciled by every path, with
\* invoice generation and email delivery failing or not.
NextDeposit ==
    \/ \E amount \in {DEPOSIT_AMOUNT, CONSULTATION_FEE}, isOwner \in BOOLEAN :
          CreateDepositCheckout(1, amount, isOwner, 1, 1)
    \/ \E s \in SIds : CustomerPays(s)
    \/ \E sigOk \in BOOLEAN, evt \in WebhookEvents, s \in SIds : Webhook(sigOk, evt, s)
    \/ handleCheckoutSessionCompleted_application
    \/ \E invoiceFails, emailFails \in BOOLEAN :
          handleCheckoutSessionCompleted_invoice(invoiceFails, emailFails)
    \/ \E s \in SIds \cup {0} : VerifyRead(s)
    \/ \E invoiceFails \in BOOLEAN : VerifyFinalize(invoiceFails)
    \/ \E k \in {0, 1}, isOwner, invoiceFails, emailFails \in BOOLEAN :
          ConfirmPayment(1, k, isOwner, invoiceFails, emailFails)

SpecDeposit == Init /\ [][NextDeposit]_vars

\* One booking, paid and reconciled and ended, with every email and invoice
\* side effect failing or not.
NextFaults ==
    \/ Background
    \/ Booking({1}, {60})
    \/ Payments({1}, {1}, {TRUE}, BOOLEAN, {1})
    \/ Lifecycle({1}, {TRUE}, BOOLEAN, {b \in EditBodies : b.slot = NoTime})

SpecFaults == Init /\ [][NextFaults]_vars

\* Bookings whose inserts may fail, by either router, while the clock runs
\* and the TTL monitor deletes.  A booking starts only while its hold can
\* still expire within the modelled time.
NextExpiry ==
    \/ Background
    \/ /\ now + HOLD_MINUTES <= MaxTicks * HOLD_MINUTES
       /\ \/ Booking(CIds, NearSlots)
          \/ \E r \in CIds, step \in {"payment", "link"} : BookInsertFails(r, step)
          \/ \E r \in CIds, fails \in {"none", "payment", "link"} : BookInsertMounted(r, fails)
    \/ \E c \in CIds : Cancel(c, TRUE)

\* The clock advances and the TTL monitor runs (every 60 seconds in the store).
SpecExpiry ==
    /\ Init
    /\ [][NextExpiry]_vars
    /\ WF_vars(Tick)
    /\ \A c \in CIds : WF_vars(TTLReap(c))
\* Amounts a create-consultation-payment body carries: absent, one dollar,
\* the fee.
AmountInputs == {0, 1, CONSULTATION_FEE}

\* Two bookings whose checkouts are opened with any consultation id, payment
\* id and amount in the request body, then paid and reconciled.
NextCheckout ==
    \/ Booking(CIds, {60})
    \/ \E c \in CIds, p \in PIds, amount \in AmountInputs, s \in SIds :
          CreateConsultationPayment(c, p, amount, TRUE, s)
    \/ \E s \in SIds : CustomerPays(s)
    \/ \E s \in SIds : Webhook(TRUE, "checkout.session.completed", s)
    \/ handleCheckoutSessionCompleted_consultation(FALSE)
    \/ \E s \in SIds : VerifyRead(s)
    \/ VerifyFinalize(FALSE)

SpecCheckout == Init /\ [][NextCheckout]_vars

\* ================================================================ claims

\* Requests r1 and r2 were in flight together: r1 passed its availability
\* check after r2 had passed its own and before r2 inserted.
Raced(r1, r2) == r2 \in book[r1].racedWith

\* C1: of two POST /book requests for overlapping slots that run concurrently,
\* at most one creates a consultation (the other is answered 409).
C1_OneBookingWins ==
    \A r1, r2 \in CIds :
        (r1 # r2 /\ Raced(r1, r2) /\ Overlap(book[r1].slot, book[r2].slot))
            => ~ (book[r1].pc = "created" /\ book[r2].pc = "created")

\* A consultation that holds its slot: a hold not yet expired, or confirmed.
Active(c) ==
    /\ cons[c].status \in {"pending_payment", "scheduled"}
    /\ cons[c].expiresAt = NoTime \/ cons[c].expiresAt > now

\* C2: in every reachable state no two consultations in hold or confirmed
\* status have the same scheduled start.
C2_NoDoubleBooking ==
    \A c1, c2 \in CIds :
        (c1 # c2 /\ Active(c1) /\ Active(c2))
            => cons[c1].scheduledDate # cons[c2].scheduledDate

\* The checkout.session.completed handler and verify-checkout-session run
\* from start to end on a payment and its consultation: the records they
\* leave and the side effects they cause.
WebhookApply(pay, con, s) ==
    IF pay.status = "none"
    THEN [pay |-> pay, con |-> con, fx |-> NoEffects]
    ELSE [pay |-> WebhookPaymentUpdate(pay, s),
          con |-> IF con.status = "none" THEN con ELSE WebhookConsultationUpdate(con),
          fx |-> WebhookEffects(con, FALSE)]

VerifyApply(pay, con, s, metaC) ==
    [pay |-> IF VerifyInvoices(s, pay, FALSE)
             THEN [VerifyPaymentSave(pay, pay, s, metaC) EXCEPT !.invoiceUrl = 1]
             ELSE VerifyPaymentSave(pay, pay, s, metaC),
     con |-> VerifyConsultationUpdate(con),
     fx |-> IF VerifyInvoices(s, pay, FALSE) THEN OneInvoice ELSE NoEffects]

SessionPayment(s) == pays[sessions[s].paymentId]
SessionConsultation(s) == cons[sessions[s].consultationId]

\* C3: a second delivery of checkout.session.completed right after the first,
\* and a second verify-checkout-session right after the first, cause no side
\* effect and leave the payment and the consultation as the first left them.
C3_SecondApplicationIdempotent ==
    /\ (resp.op = "webhook" /\ resp.code = 200 /\ hook.pc = "idle" /\ hook.s # 0)
        => LET again == WebhookApply(SessionPayment(hook.s), SessionConsultation(hook.s), hook.s)
           IN /\ again.fx = NoEffects
              /\ again.pay = SessionPayment(hook.s)
              /\ again.con = SessionConsultation(hook.s)
    /\ (resp.op = "verify" /\ resp.code = 200 /\ verify.pc = "idle" /\ verify.s # 0)
        => LET again == VerifyApply(SessionPayment(verify.s), SessionConsultation(verify.s),
                                    verify.s, sessions[verify.s].consultationId)
           IN /\ again.fx = NoEffects
              /\ again.pay = SessionPayment(verify.s)
              /\ again.con = SessionConsultation(verify.s)

\* C4: from a hold with a pending payment and a paid session, webhook then
\* verify and verify then webhook leave the same payment and consultation.
C4_OrderIndependent ==
    \A s \in SIds :
        (/\ sessions[s].paid
         /\ SessionPayment(s).status = "pending"
         /\ SessionConsultation(s).status = "pending_payment")
        => LET c == sessions[s].consultationId
               w == WebhookApply(SessionPayment(s), SessionConsultation(s), s)
               wv == VerifyApply(w.pay, w.con, s, c)
               v == VerifyApply(SessionPayment(s), SessionConsultation(s), s, c)
               vw == WebhookApply(v.pay, v.con, s)
           IN wv.pay = vw.pay /\ wv.con = vw.con

\* C5: when verify-checkout-session read the payment before another handler
\* completed it, its later write step changes nothing (it lost the race).
C5_LoserWritesNothing ==
    [][ (/\ verify.pc = "read"
         /\ verify'.pc = "idle"
         /\ verify.saw.status = "pending"
         /\ SessionPayment(verify.s).status = "completed")
        => pays' = pays ]_vars

\* C6: once a payment is 'completed', no step sets it to 'pending' or 'failed'.
C6_CompletedNeverRegresses ==
    [][ \A p \in PIds :
          pays[p].status = "completed" => pays'[p].status \notin {"pending", "failed"} ]_vars

\* C7: a payment becomes 'completed' only from 'pending': no step moves a
\* 'failed' or 'refunded' payment to 'completed'.
C7_CompletedOnlyFromPending ==
    [][ \A p \in PIds :
          pays[p].status \in {"failed", "refunded"} => pays'[p].status # "completed" ]_vars

\* C8: a consultation becomes 'scheduled' only in a step of the payment
\* reconciliation (checkout webhook or verify-checkout-session) and only while
\* its linked payment is 'completed'.
C8_ConfirmedOnlyByReconciliation ==
    [][ \A c \in CIds :
          (cons[c].status # "scheduled" /\ cons'[c].status = "scheduled")
            => /\ resp'.op \in {"webhook", "verify"}
               /\ cons'[c].paymentId # 0
               /\ pays'[cons'[c].paymentId].status = "completed" ]_vars

\* C9: a cancel that takes a confirmed consultation with a completed payment
\* to 'cancelled' leaves the payment 'refunded' when the start is more than
\* 24 hours (1440 minutes) after the current time and 'completed' otherwise.
C9_RefundIffMoreThan24h ==
    [][ \A c \in CIds :
          (/\ resp'.op = "cancel"
           /\ cons[c].status = "scheduled"
           /\ cons[c].paymentId # 0
           /\ pays[cons[c].paymentId].status = "completed"
           /\ cons'[c].status # "scheduled")
          => /\ cons'[c].status = "cancelled"
             /\ pays'[cons[c].paymentId].status =
                   IF cons[c].scheduledDate - now > 1440 THEN "refunded" ELSE "completed" ]_vars

\* A cancel more than 24 hours ahead has refunded the completed payment.
C9_Witness ==
    /\ resp.op = "cancel"
    /\ resp.code = 200
    /\ cons[1].status = "cancelled"
    /\ cons[1].scheduledDate - now > 1440
    /\ pays[1].status = "refunded"

\* The requested start t lies in the interval of consultation con.
Occupies(con, t) ==
    /\ con.status = "scheduled"
    /\ con.scheduledDate <= t
    /\ t < con.scheduledDate + con.duration

\* C10: an edit of an editable consultation to a future date/time that another
\* confirmed consultation occupies answers 409 and changes no consultation.
C10_EditConflictRejected ==
    \A c \in CIds, b \in EditBodies :
        (/\ cons[c].status \notin {"none", "completed", "cancelled"}
         /\ b.slot # NoTime
         /\ b.slot >= now
         /\ \E o \in CIds \ {c} : Occupies(cons[o], b.slot))
        => /\ EditResult(cons, c, b, now).code = 409
           /\ EditResult(cons, c, b, now).cons = cons

\* C11: a hold whose expiresAt is still in the future makes isSlotAvailable
\* answer false for the window the hold occupies.
C11_UnexpiredHoldBlocks ==
    \A c \in CIds :
        (cons[c].status = "pending_payment" /\ cons[c].expiresAt > now)
            => ~ isSlotAvailable(cons, cons[c].scheduledDate,
                                 cons[c].scheduledDate + cons[c].duration)

\* The intervals [s1, e1) and [s2, e2) intersect.
Intersects(s1, e1, s2, e2) == s1 < e2 /\ s2 < e1

\* C12: isSlotAvailable(start, end) is false whenever the interval of some
\* confirmed or completed consultation intersects [start, end).
C12_IntervalOverlapBlocks ==
    \A c \in CIds, start \in BookSlots :
        (/\ cons[c].status \in {"scheduled", "completed"}
         /\ Intersects(cons[c].scheduledDate, cons[c].scheduledDate + cons[c].duration,
                       start, start + SLOT_DURATION))
            => ~ isSlotAvailable(cons, start, start + SLOT_DURATION)

\* A hold whose expiresAt has passed (the TTL monitor may delete it).
ExpiredHold(c) ==
    /\ cons[c].status = "pending_payment"
    /\ cons[c].expiresAt # NoTime
    /\ cons[c].expiresAt <= now

\* C13: an expired hold, reaped or not, never makes isSlotAvailable answer
\* false: the answer for its window is the answer without the hold.
C13_ExpiredHoldNeverBlocks ==
    \A c \in CIds :
        ExpiredHold(c)
            => LET start == cons[c].scheduledDate
                   end == cons[c].scheduledDate + cons[c].duration
               IN isSlotAvailable(cons, start, end)
                    = isSlotAvailable([cons EXCEPT ![c] = NoConsultation], start, end)

\* An expired hold that the TTL monitor has not deleted yet.
C13_Witness ==
    \E c \in CIds :
        /\ ExpiredHold(c)
        /\ isSlotAvailable(cons, cons[c].scheduledDate,
                            cons[c].scheduledDate + cons[c].duration)

\* C14: a webhook request whose signature does not verify is answered 400,
\* changes no record and causes no side effect, whatever event it carries.
C14_BadSignatureRejected ==
    [][ \A evt \in WebhookEvents, s \in SIds :
          Webhook(FALSE, evt, s)
            => /\ resp'.code = 400
               /\ resp'.fx = NoEffects
               /\ UNCHANGED <<cons, pays, sessions, hook>> ]_vars

\* A forged completion was rejected while a paid session's payment is pending.
C14_Witness ==
    /\ resp.op = "webhook"
    /\ resp.code = 400
    /\ \E s \in SIds : sessions[s].paid /\ pays[sessions[s].paymentId].status = "pending"

\* C15: a reconciliation of a paid deposit in which invoice generation
\* fails (confirm-payment, verify-checkout-session, the webhook's deposit
\* branch) still leaves the payment 'completed' and the application advanced
\* from 'consultation'.
C15_InvoiceFailureKeepsTransitions ==
    [][ \A p \in PIds, k \in SIds, emailFails \in BOOLEAN :
          (/\ pays[p].type = "deposit"
           /\ sessions[k].type = "deposit"
           /\ sessions[k].paymentId = p
           /\ sessions[k].paid
           /\ \/ ConfirmPayment(p, k, TRUE, TRUE, emailFails)
              \/ verify.s = k /\ VerifyFinalize(TRUE)
              \/ hook.s = k /\ handleCheckoutSessionCompleted_invoice(TRUE, emailFails))
          => /\ pays'[p].status = "completed"
             /\ apps'[pays[p].applicationId].stage # "consultation" ]_vars

\* C16: no handler step changes the status or the scheduledDate of a
\* consultation that is 'completed' or 'cancelled'.
C16_TerminalStatesFrozen ==
    [][ \A c \in CIds :
          (cons[c].status \in {"completed", "cancelled"} /\ resp'.op # "ttl")
            => /\ cons'[c].status = cons[c].status
               /\ cons'[c].scheduledDate = cons[c].scheduledDate ]_vars

\* The step generates an invoice for payment p: confirm-payment with a
\* succeeded intent, the invoice block of verify-checkout-session, or the
\* invoice step of the webhook's deposit branch.
GeneratesInvoice(p) ==
    \/ \E k \in SIds, emailFails \in BOOLEAN :
          sessions[k].paid /\ ConfirmPayment(p, k, TRUE, FALSE, emailFails)
    \/ /\ verify.pc = "read"
       /\ sessions[verify.s].paymentId = p
       /\ VerifyInvoices(verify.s, verify.saw, FALSE)
       /\ VerifyFinalize(FALSE)
    \/ /\ hook.pc = "depositRead"
       /\ sessions[hook.s].paymentId = p
       /\ \E emailFails \in BOOLEAN : handleCheckoutSessionCompleted_invoice(FALSE, emailFails)

\* C17: no step generates an invoice for a payment that already has an
\* invoiceUrl, whatever the order of webhook, verify and confirm-payment.
C17_InvoiceAtMostOnce ==
    [][ \A p \in PIds :
          (pays[p].status # "none" /\ pays[p].invoiceUrl # 0) => ~ GeneratesInvoice(p) ]_vars

\* A consultation left in hold without a linked payment by a failed POST /book.
OrphanHold(c) ==
    /\ book[c].pc = "failed"
    /\ cons[c].status = "pending_payment"
    /\ cons[c].paymentId = 0

\* C18: a hold left without a linked payment by a failed POST /book does not
\* stay that way forever: it is eventually removed or leaves hold status.
C18_OrphanHoldEventuallyGone ==
    \A c \in CIds : OrphanHold(c) ~> ~ OrphanHold(c)

\* C19: a successful POST /book leaves a hold with expiresAt = now +
\* HOLD_MINUTES and a 'pending' payment of CONSULTATION_FEE, linked in both
\* directions, the payment carrying the same expiry as the hold.
C19_BookCreatesLinkedHold ==
    [][ \A r \in CIds :
          BookInsert(r)
            => LET p == cons'[r].paymentId IN
               /\ cons'[r].status = "pending_payment"
               /\ cons'[r].expiresAt = now + HOLD_MINUTES
               /\ p # 0
               /\ pays'[p].status = "pending"
               /\ pays'[p].amount = CONSULTATION_FEE
               /\ pays'[p].consultationId = r
               /\ PaymentExpiresAt(pays'[p]) = cons'[r].expiresAt ]_vars

\* C20: when the email of a handler fails, the handler still makes its
\* primary transition: complete still completes the consultation,
\* confirm-booking and the checkout webhook still confirm it, and
\* confirm-payment still completes the payment.
C20_EmailFailureKeepsTransition ==
    [][ \A c \in CIds, p \in PIds, k \in SIds :
          /\ (cons[c].status # "none" /\ Complete(c, "advice", TRUE, TRUE))
                => cons'[c].status = "completed"
          /\ (cons[c].status \notin {"none", "pending_payment", "cancelled"}
                /\ ConfirmBooking(c, TRUE, TRUE))
                => cons'[c].status = "scheduled"
          /\ (cons[c].status = "pending_payment" /\ ConfirmBookingAuth(c, TRUE, TRUE))
                => cons'[c].status = "scheduled"
          /\ (hook.pc = "paid" /\ sessions[hook.s].consultationId = c
                /\ cons[c].status # "none"
                /\ handleCheckoutSessionCompleted_consultation(TRUE))
                => cons'[c].status = "scheduled"
          /\ (pays[p].status # "none" /\ sessions[k].paid
                /\ ConfirmPayment(p, k, TRUE, FALSE, TRUE))
                => pays'[p].status = "completed" ]_vars

\* C21: after an edit moves a confirmed consultation to a new date/time, the
\* consultation occupies its new slot: isSlotAvailable answers false for the
\* window it was moved to.
C21_RescheduledKeepsSlot ==
    [][ \A c \in CIds, b \in EditBodies :
          (/\ cons[c].status = "scheduled"
           /\ b.slot # NoTime
           /\ b.slot # cons[c].scheduledDate
           /\ Edit(c, b)
           /\ resp'.code = 200)
          => ~ isSlotAvailable(cons', cons'[c].scheduledDate,
                               cons'[c].scheduledDate + cons'[c].duration) ]_vars

\* C22: an edit that supplies no date/time, or the date/time the consultation
\* already has, leaves status, scheduledDate and the reschedule lineage
\* unchanged; an accepted edit to a different date/time sets 'rescheduled'
\* and records a reason and a rescheduledFrom reference.
C22_RescheduleOnlyOnChange ==
    [][ \A c \in CIds, b \in EditBodies :
          (cons[c].status # "none" /\ Edit(c, b))
          => /\ (b.slot = NoTime \/ b.slot = cons[c].scheduledDate)
                  => /\ cons'[c].status = cons[c].status
                     /\ cons'[c].scheduledDate = cons[c].scheduledDate
                     /\ cons'[c].rescheduledFrom = cons[c].rescheduledFrom
                     /\ cons'[c].rescheduleReason = cons[c].rescheduleReason
             /\ (b.slot # NoTime /\ b.slot # cons[c].scheduledDate /\ resp'.code = 200)
                  => /\ cons'[c].status = "rescheduled"
                     /\ cons'[c].scheduledDate = b.slot
                     /\ cons'[c].rescheduledFrom # 0
                     /\ cons'[c].rescheduleReason # "none" ]_vars

\* C23: a consultation becomes 'completed' only from 'scheduled': no step
\* completes a consultation that is in hold or cancelled.
C23_CompletedOnlyFromScheduled ==
    [][ \A c \in CIds :
          (cons[c].status # "completed" /\ cons'[c].status = "completed")
            => cons[c].status = "scheduled" ]_vars

\* C24: an authorized cancel of a 'completed' or 'cancelled' consultation is
\* answered 400 and changes no consultation and no payment; an authorized
\* cancel of a consultation in hold, confirmed or rescheduled is accepted
\* and leaves it 'cancelled'.
C24_CancelOnlyFromLiveStates ==
    [][ \A c \in CIds :
          (cons[c].status # "none" /\ Cancel(c, TRUE))
          => /\ cons[c].status \in {"completed", "cancelled"}
                  => /\ resp'.code = 400
                     /\ UNCHANGED <<cons, pays>>
             /\ cons[c].status \in {"pending_payment", "scheduled", "rescheduled"}
                  => /\ resp'.code = 200
                     /\ cons'[c].status = "cancelled" ]_vars

\* C25: whatever the interleaving of the checkout webhook,
\* verify-checkout-session and confirm-payment for a deposit, the application
\* receives at most one 'deposit_paid' timeline entry, and has exactly one
\* when its stage is 'deposit_paid'.
C25_DepositAdvancesOnce ==
    \A a \in AIds :
        /\ apps[a].timeline <= 1
        /\ apps[a].stage = "deposit_paid" <=> apps[a].timeline = 1

\* C26: the TTL monitor never deletes a confirmed consultation: no TTL step
\* removes a consultation whose status is 'scheduled'.
C26_ConfirmedNeverReaped ==
    [][ \A c \in CIds : cons[c].status = "scheduled" => ~ TTLReap(c) ]_vars

\* C27: when the checkout webhook or verify-checkout-session finishes and the
\* consultation-fee payment of its session is 'completed', the consultation
\* of that session exists and is 'scheduled' in the same state.
C27_CompletedPaymentHasConfirmedConsultation ==
    [][ \A s \in SIds :
          (/\ sessions[s].type = "consultation_fee"
           /\ \/ hook.pc = "paid" /\ hook.s = s /\ hook'.pc = "idle"
              \/ verify.pc = "read" /\ verify.s = s /\ verify'.pc = "idle"
           /\ pays'[sessions[s].paymentId].status = "completed")
          => cons'[sessions[s].consultationId].status = "scheduled" ]_vars

\* C28: the links between consultations and payments agree after every
\* step: a payment whose consultationId is c is the payment recorded in c's
\* paymentId, and a step of the checkout webhook or of
\* verify-checkout-session that confirms a consultation does so for the
\* payment recorded in that consultation's paymentId.
C28_LinksAgree ==
    [][ /\ \A p \in PIds :
             (pays'[p].status # "none" /\ pays'[p].consultationId # 0)
                => cons'[pays'[p].consultationId].paymentId = p
        /\ \A s \in SIds :
             LET c == sessions[s].consultationId IN
             (/\ sessions[s].type = "consultation_fee"
              /\ \/ hook.pc = "paid" /\ hook.s = s /\ hook'.pc = "idle"
                 \/ verify.pc = "read" /\ verify.s = s /\ verify'.pc = "idle"
              /\ cons[c].status # "scheduled"
              /\ cons'[c].status = "scheduled")
             => cons[c].paymentId = sessions[s].paymentId ]_vars

\* C29: every checkout session opened for a consultation fee charges the
\* amount stored on its payment record (in cents), so a consultation is only
\* ever confirmed by a checkout of the fee.
C29_CheckoutChargesPaymentAmount ==
    \A s \in SIds :
        sessions[s].type = "consultation_fee"
            => sessions[s].unit_amount = pays[sessions[s].paymentId].amount * 100

\* C30: an accepted cancel reports refundStatus 'refund_processed' exactly
\* when that call changed the linked payment from 'completed' to 'refunded'.
C30_RefundReportedIffRefunded ==
    [][ \A c \in CIds :
          (/\ cons[c].status \in {"pending_payment", "scheduled"}
           /\ Cancel(c, TRUE))
          => LET p == cons[c].paymentId IN
             resp'.info = "refund_processed"
                <=> /\ p # 0
                    /\ pays[p].status = "completed"
                    /\ pays'[p].status = "refunded" ]_vars

====
